---- MODULE Spec2Model ----
(***************************************************************************)
(* Lumina study timer (src/lumina/src/app/timer/page.tsx, TimerPage).      *)
(*                                                                         *)
(* A state of the model is one committed render of the component: the      *)
(* useState cells, the intervalRef, the browser timers that are armed and  *)
(* the requests that are in flight.  A step is one event handler, one      *)
(* timer callback, one pass of the passive effects of the last render, or  *)
(* the continuation of an awaited call.  Handlers and callbacks run only   *)
(* when the effects of the last render have run (Quiescent).               *)
(***************************************************************************)
EXTENDS Integers, Sequences, FiniteSets, TLC

VARIABLES
    mode,                     \* useState 'mode'
    countdownTimeLeft,        \* useState, seconds left of the study countdown
    breakTimeLeft,            \* useState, seconds left of the break; kept only while a break runs:
                              \* an abandoned break leaves its value in the cell, which is not read
                              \* again before the next break overwrites it
    onBreak,                  \* useState, break flag
    timerRunning,             \* useState, study flag
    customMinutes,            \* useState, text of the minutes input (sequence of characters)
    stopwatchSeconds,         \* useState, elapsed seconds of the stopwatch
    subject,                  \* useState, selected subject ("" when none)
    subjects,                 \* useState, subject list from the preferences
    initialCountdownDuration, \* useState, target of the current countdown
    prePauseStudySeconds,     \* useState, study seconds held during a break
    intervalRef,              \* useRef: id of the interval the component holds, 0 for null
    intervals,                \* browser: the armed setInterval timers, each with the values its callback closed over
    pendingRestart,           \* browser: armed setTimeout(.., 50) callbacks of the auto-restart
    inflight,                 \* ledger requests awaited by a handler that have not returned
    micro,                    \* continuation of an await on a call that returned without a request
    rendered,                 \* dependency values of the render whose effects ran last
    lastOp,                   \* history: the last handler or callback that ran
    lastFrom,                 \* history: the phase in which it ran
    lastSave,                 \* history: the handleSaveStudyTime call made by the last step
    alertMsg,                 \* history: the alert raised by the last step ("" when none)
    segWrites,                \* history: ledger requests issued since the current study segment began
    segTicks,                 \* history: study ticks of the study phase that is running (0 otherwise)
    held,                     \* history: the study seconds held when the break was entered, and how
                              \* they compare with the study ticks of that segment
    undisturbed,              \* history: the user has done nothing since start()
    studyData,                \* ledger: the user's document in StudyTimes.Hours, per date the
                              \* numbers stored in it, each under the path of field names that leads to it
    added,                    \* history: per (date, subject) the hours of the calls that succeeded
    status,                   \* history: the HTTP status of the last call (0 before any)
    subjectColorsMap,         \* useState, the colour of each subject
    prefRequests,             \* preference requests sent by the page that have not returned
    prefStored,               \* preferences: the user's document in userpref.Pref
    prefSent                  \* history: the number of preference requests the page has sent

vars == <<mode, countdownTimeLeft, breakTimeLeft, onBreak, timerRunning,
          customMinutes, stopwatchSeconds, subject, subjects,
          initialCountdownDuration, prePauseStudySeconds, intervalRef,
          intervals, pendingRestart, inflight, micro, rendered,
          lastOp, lastFrom, lastSave, alertMsg, segWrites, segTicks, held,
          undisturbed, studyData, added, status,
          subjectColorsMap, prefRequests, prefStored, prefSent>>

ledgerVars == <<studyData, added, status>>

prefVars == <<subjectColorsMap, prefRequests, prefStored, prefSent>>

timerVars == <<mode, countdownTimeLeft, breakTimeLeft, onBreak, timerRunning,
               customMinutes, stopwatchSeconds, subject, subjects,
               initialCountdownDuration, prePauseStudySeconds, intervalRef,
               intervals, pendingRestart, inflight, micro>>

----------------------------------------------------------------------------
(* Bounds of the exploration *)

\* the stopwatch stops counting here
MaxStopwatch == 126

\* ledger requests a handler may be awaiting at one time
MaxInflight == 1

\* ledger requests counted per segment (the count stays here once reached)
MaxSegWrites == 2

\* the largest number of minutes typed into the minutes input
MaxCustomMinutes == 3

\* the number of subjects in the preferences, when there are any
MaxSubjects == 2

----------------------------------------------------------------------------
(* Program constants *)

Modes == {"pomodoro", "reversePomodoro", "custom", "stopwatch"}

PresetPomodoro == 25 * 60
PresetReversePomodoro == 5 * 60
PresetPomodoroBreak == 5 * 60
PresetReversePomodoroBreak == 25 * 60
MaxCustomSeconds == 180 * 60

Min(a, b) == IF a <= b THEN a ELSE b
Max(a, b) == IF a >= b THEN a ELSE b

----------------------------------------------------------------------------
(* parseInt on the text of the minutes input: an optional sign, then the   *)
(* longest run of decimal digits; NaN when there is no digit.              *)

Digits == <<"0", "1", "2", "3", "4", "5", "6", "7", "8", "9">>

IsDigit(c) == \E d \in 1..10 : Digits[d] = c

DigitVal(c) == (CHOOSE d \in 1..10 : Digits[d] = c) - 1

RECURSIVE ParseDigits(_, _, _)
ParseDigits(s, i, acc) ==
    IF i > Len(s) \/ ~IsDigit(s[i]) THEN acc
    ELSE ParseDigits(s, i + 1, acc * 10 + DigitVal(s[i]))

ParseInt(s) ==
    LET neg   == Len(s) >= 1 /\ s[1] = "-"
        first == IF Len(s) >= 1 /\ s[1] \in {"-", "+"} THEN 2 ELSE 1
    IN  IF first > Len(s) \/ ~IsDigit(s[first])
        THEN [nan |-> TRUE, val |-> 0]
        ELSE [nan |-> FALSE,
              val |-> IF neg THEN 0 - ParseDigits(s, first, 0)
                             ELSE ParseDigits(s, first, 0)]

\* Math.min(parseInt(customMinutes) * 60 || 0, 180 * 60)
CustomDuration(cm) ==
    LET p == ParseInt(cm)
    IN  Min(IF p.nan THEN 0 ELSE p.val * 60, MaxCustomSeconds)

\* !customMinutes || parseInt(customMinutes) <= 0
CustomInvalid(cm) ==
    cm = <<>> \/ (~ParseInt(cm).nan /\ ParseInt(cm).val <= 0)

\* the decimal text of a natural number, as the input delivers it
RECURSIVE ToText(_)
ToText(n) ==
    IF n < 10 THEN <<Digits[n + 1]>>
    ELSE Append(ToText(n \div 10), Digits[(n % 10) + 1])

\* texts the minutes input delivers: empty, zero, a negative number, MaxCustomMinutes
CustomInputs ==
    { <<>>, <<"0">>, <<"-", "1">>, ToText(MaxCustomMinutes) }

\* subject lists the preferences request delivers: none, or MaxSubjects names
SubjectPool == <<"math", "art", "code", "music">>

SubjectLists == { <<>>, SubSeq(SubjectPool, 1, Min(MaxSubjects, Len(SubjectPool))) }

----------------------------------------------------------------------------
(* handleSaveStudyTime(seconds), called from a render whose subject is     *)
(* subj: the hours are Math.round(seconds / 3600 * 10) / 10, kept here in  *)
(* tenths of an hour; nothing is sent when they are <= 0 or no subject is  *)
(* selected.                                                               *)

\* fault variant of RoundedTenths: hours cut to one decimal instead of rounded
RoundedTenthsCut(seconds) == seconds \div 360

\* Math.round(x) is the integer nearest to x, a half going up
RoundedTenths(seconds) == (seconds + 180) \div 360

\* fault variant of HandleSaveStudyTime: a request is sent without a subject
HandleSaveStudyTimeAnySubject(seconds, subj) ==
    [calls   |-> 1,
     seconds |-> seconds,
     subject |-> subj,
     tenths  |-> RoundedTenths(seconds),
     sent    |-> RoundedTenths(seconds) > 0]

HandleSaveStudyTime(seconds, subj) ==
    [calls   |-> 1,
     seconds |-> seconds,
     subject |-> subj,
     tenths  |-> RoundedTenths(seconds),
     sent    |-> RoundedTenths(seconds) > 0 /\ subj # ""]

\* no call of handleSaveStudyTime
NoCall == [calls |-> 0, seconds |-> 0, subject |-> "", tenths |-> 0, sent |-> FALSE]

\* history record of a step: the call it made (none: calls = 0) and how its
\* seconds compare with the study ticks of the segment it credits
\* (-1 fewer, 0 equal, 1 more, 2 not determined)
NoSave == [calls |-> 0, seconds |-> 0, subject |-> "", tenths |-> 0, sent |-> FALSE,
           drift |-> 0]

Logged(save, drift) == [calls |-> save.calls, seconds |-> save.seconds,
                        subject |-> save.subject, tenths |-> save.tenths,
                        sent |-> save.sent,
                        drift |-> IF save.calls = 0 THEN 0 ELSE drift]

\* the count of requests of the segment after a call
Counted(n, save) == IF save.sent /\ n < MaxSegWrites THEN n + 1 ELSE n

Sign(x) == IF x < 0 THEN 0 - 1 ELSE IF x > 0 THEN 1 ELSE 0

NoHeld == [seconds |-> 0, drift |-> 0]

\* seconds credited during a break, against the ticks of the segment before it
HeldDrift(h, seconds) ==
    IF seconds = h.seconds THEN h.drift
    ELSE IF h.drift = 0 \/ h.drift = Sign(seconds - h.seconds) THEN Sign(seconds - h.seconds)
    ELSE 2

----------------------------------------------------------------------------
(* Durations *)

\* the next study duration computed when a break or a break-less countdown ends
NextStudyDuration(m, cm) ==
    CASE m = "pomodoro"        -> PresetPomodoro
      [] m = "reversePomodoro" -> PresetReversePomodoro
      [] m = "custom"          -> CustomDuration(cm)
      [] OTHER                 -> 0

\* the break duration computed when a countdown reaches its end
CompletionBreak(m, actualStudyTimeCompleted) ==
    CASE m = "pomodoro"        -> PresetPomodoroBreak
      [] m = "reversePomodoro" -> PresetReversePomodoroBreak
      [] m = "custom"          -> actualStudyTimeCompleted \div 3
      [] OTHER                 -> 0

\* fault variant of PauseBreak: a handlePause that grants half of the study time as break
PauseBreakHalf(currentSessionStudyTime) == currentSessionStudyTime \div 2

\* the break duration computed by handlePause
PauseBreak(currentSessionStudyTime) == currentSessionStudyTime \div 3

\* fault variant of StopSecondsStudied: a handleStop that credits the whole target of a countdown
StopSecondsStudiedWhole(m, sw, icd, ctl) ==
    IF m = "stopwatch" THEN sw ELSE icd

\* the seconds handleStop credits
StopSecondsStudied(m, sw, icd, ctl) ==
    IF m = "stopwatch" THEN sw
    ELSE IF icd > 0 THEN Max(0, icd - ctl)
    ELSE 0

\* the seconds handlePause counts as studied
PauseStudyTime(m, sw, icd, ctl) ==
    IF m = "stopwatch" THEN sw ELSE icd - ctl

----------------------------------------------------------------------------
(* Study-time ledger (src/lumina/src/app/api/user/study-hours/route.ts).   *)
(* POST increments the field studyData.<date>.<subject> of the user's      *)
(* document.  The update names the field by a dotted path, so a dot inside *)
(* the subject separates two field names.  Subjects are kept as sequences  *)
(* of characters; hours are kept in tenths.                                *)

\* the largest number of tenths one request carries
MaxPostTenths == 2

\* the ledger is explored until a (date, subject) has been credited this much
MaxLedgerTenths == 3

\* dates as the timer sends them (YYYY-MM-DD, no dot in them); "" for a missing date
LedgerDates == {"2025-01-01", "2025-01-02"}

\* subject names as the subject form accepts them (trimmed, lower case), "" for a missing one
LedgerSubjects == { <<>>, <<"a">>, <<"b">>, <<"a", ".", "b">> }

LedgerKeys == LedgerDates \X (LedgerSubjects \ {<<>>})

\* the field names a dotted path consists of
RECURSIVE SplitDots(_)
SplitDots(s) ==
    IF \A i \in 1..Len(s) : s[i] # "." THEN <<s>>
    ELSE LET k == CHOOSE i \in 1..Len(s) :
                      s[i] = "." /\ \A j \in 1..(i - 1) : s[j] # "."
         IN  <<SubSeq(s, 1, k - 1)>> \o SplitDots(SubSeq(s, k + 1, Len(s)))

\* path p leads through path q: q is a proper prefix of p
Through(p, q) == Len(q) < Len(p) /\ SubSeq(p, 1, Len(q)) = q

\* the request is refused with 400
PostInvalid(date, subj) == date = "" \/ subj = <<>>

\* the update fails in the database (500): a field on the way to the path
\* holds a number, or the path itself holds a document
PostConflict(doc, path) ==
    \/ \E q \in DOMAIN doc : Through(path, q)
    \/ \E q \in DOMAIN doc : Through(q, path)

\* $inc with upsert: the field is created with the amount or grows by it
Increment(doc, path, duration) ==
    [q \in (DOMAIN doc) \cup {path} |->
        IF q = path THEN (IF path \in DOMAIN doc THEN doc[path] ELSE 0) + duration
        ELSE doc[q]]

\* studyData[date][subj] as a reader of the document finds it: the field
\* of the date's document that has the subject as its name
StoredHours(data, date, subj) ==
    IF <<subj>> \in DOMAIN data[date]
    THEN [kind |-> "number", hours |-> data[date][<<subj>>]]
    ELSE IF \E q \in DOMAIN data[date] : Through(q, <<subj>>)
    THEN [kind |-> "document", hours |-> 0]
    ELSE [kind |-> "absent", hours |-> 0]

\* POST /api/user/study-hours with a user cookie
Post(date, subj, duration) ==
    /\ IF PostInvalid(date, subj)
       THEN /\ status' = 400
            /\ UNCHANGED <<studyData, added>>
       ELSE LET path == SplitDots(subj)
            IN  IF PostConflict(studyData[date], path)
                THEN /\ status' = 500
                     /\ UNCHANGED <<studyData, added>>
                ELSE /\ added[<<date, subj>>] + duration <= MaxLedgerTenths
                     /\ studyData' = [studyData EXCEPT
                                         ![date] = Increment(@, path, duration)]
                     /\ added' = [added EXCEPT ![<<date, subj>>] = @ + duration]
                     /\ status' = 200
    /\ UNCHANGED <<timerVars, rendered, lastOp, lastFrom, lastSave, alertMsg,
                   segWrites, segTicks, held, undisturbed, prefVars>>

----------------------------------------------------------------------------
(* Subjects and their colours (handleAddSubject, Delete Selected) and the  *)
(* preferences route that stores them (app/api/user/preferences/route.ts). *)
(* The texts of the two inputs are sequences of characters; a subject name *)
(* is the string made of the characters handleAddSubject keeps.            *)

\* preference requests the page sends in one run
MaxPrefSent == 2

UpperCase == <<"A", "B", "C", "D", "E", "F", "G", "H", "I", "J", "K", "L", "M",
               "N", "O", "P", "Q", "R", "S", "T", "U", "V", "W", "X", "Y", "Z">>

LowerCase == <<"a", "b", "c", "d", "e", "f", "g", "h", "i", "j", "k", "l", "m",
               "n", "o", "p", "q", "r", "s", "t", "u", "v", "w", "x", "y", "z">>

IsUpper(c) == \E i \in 1..26 : UpperCase[i] = c

IsSpace(c) == c \in {" ", "\t"}

\* String.prototype.toLowerCase
ToLowerCase(s) ==
    [i \in 1..Len(s) |->
        IF IsUpper(s[i]) THEN LowerCase[CHOOSE k \in 1..26 : UpperCase[k] = s[i]]
        ELSE s[i]]

\* String.prototype.trim: the white space at both ends is dropped
RECURSIVE Trim(_)
Trim(s) ==
    IF s = <<>> THEN s
    ELSE IF IsSpace(s[1]) THEN Trim(Tail(s))
    ELSE IF IsSpace(s[Len(s)]) THEN Trim(SubSeq(s, 1, Len(s) - 1))
    ELSE s

\* the string a sequence of characters spells
RECURSIVE Text(_)
Text(s) == IF s = <<>> THEN "" ELSE s[1] \o Text(Tail(s))

\* texts typed into the subject input
NewSubjectInputs ==
    { <<" ">>, <<"a", "r", "t">>, <<" ", "B", "i", "o", " ">> }

\* the colours of the subjects the preferences request delivers
ColorPool == << <<"#", "e", "f", "4", "4", "4", "4">>,
                <<"#", "3", "b", "8", "2", "f", "6">>,
                <<"#", "2", "2", "c", "5", "5", "e">>,
                <<"#", "a", "8", "5", "5", "f", "7">> >>

\* values of the colour input: its default, and the colour of the first
\* subject in capitals
NewColorInputs ==
    { <<"#", "f", "9", "7", "3", "1", "6">>,
      <<"#", "E", "F", "4", "4", "4", "4">> }

\* the colour map the preferences request delivers with a subject list
InitialColors(list) ==
    [s \in {list[i] : i \in 1..Len(list)} |->
        ColorPool[CHOOSE i \in 1..Len(SubjectPool) : SubjectPool[i] = s]]

\* subjects.includes(name)
Includes(list, name) == \E i \in 1..Len(list) : list[i] = name

\* fault variant of AddSubjectName: the text is trimmed but keeps its capitals
AddSubjectNameAsTyped(input) == Text(Trim(input))

\* newSubject.trim().toLowerCase()
AddSubjectName(input) == Text(ToLowerCase(Trim(input)))

\* Object.values(subjectColorsMap).some(color => color.toLowerCase() === newColor.toLowerCase())
ColorInUse(colors, color) ==
    \E k \in DOMAIN colors : ToLowerCase(colors[k]) = ToLowerCase(color)

\* { ...subjectColorsMap, [name]: newColor }
WithColor(colors, name, color) ==
    [k \in (DOMAIN colors) \cup {name} |-> IF k = name THEN color ELSE colors[k]]

\* the copy of the map after delete updatedColors[subject]
WithoutColor(colors, name) ==
    [k \in (DOMAIN colors) \ {name} |-> colors[k]]

\* subjects.filter(s => s !== subject)
WithoutSubject(list, name) == SelectSeq(list, LAMBDA s : s # name)

\* a request of the page: its body, and the values of the render that sent
\* it, which the handler restores when the answer is not ok
PrefRequest(op, list, colors) ==
    [op |-> op, subjects |-> list, subjectcolors |-> colors,
     prevSubjects |-> subjects, prevColors |-> subjectColorsMap,
     prevSubject |-> subject, reply |-> 0]

----------------------------------------------------------------------------
(* Renders and effects *)

\* the values the two effects depend on, as of the current render
CurDeps == [mode |-> mode, customMinutes |-> customMinutes,
            timerRunning |-> timerRunning, onBreak |-> onBreak,
            initialCountdownDuration |-> initialCountdownDuration,
            prePauseStudySeconds |-> prePauseStudySeconds,
            subject |-> subject]

ResetDeps(d) == <<d.mode, d.customMinutes, d.timerRunning, d.onBreak>>

\* the effects of the current render have run
Settled == rendered = CurDeps

\* nothing is left to run from the last event
Quiescent == Settled /\ micro = "none"

\* the three phases of the state machine
Phase == IF timerRunning THEN "Studying"
         ELSE IF onBreak THEN "OnBreak"
         ELSE "Idle"

\* fault variant of ClearInterval: a clearInterval that leaves the timer armed
ClearIntervalLeaky(ivs, id) == ivs

\* clearInterval(id): the timer with that id is disarmed
ClearInterval(ivs, id) == { iv \in ivs : iv.id # id }

\* setInterval: the new timer gets an id no armed timer has
FreshId(ivs) == CHOOSE i \in 1..(Cardinality(ivs) + 1) : \A iv \in ivs : iv.id # i

\* the callback armed by the interval effect closes over the render's values
Closure(id) == [id |-> id, onBreak |-> onBreak, timerRunning |-> timerRunning,
                mode |-> mode, customMinutes |-> customMinutes,
                initialCountdownDuration |-> initialCountdownDuration,
                prePauseStudySeconds |-> prePauseStudySeconds,
                subject |-> subject]

Init ==
    /\ mode = "pomodoro"
    /\ countdownTimeLeft = PresetPomodoro
    /\ breakTimeLeft = 0
    /\ onBreak = FALSE
    /\ timerRunning = FALSE
    /\ customMinutes = <<>>
    /\ stopwatchSeconds = 0
    /\ subjects \in SubjectLists
    /\ subject = IF Len(subjects) > 0 THEN subjects[1] ELSE ""
    /\ initialCountdownDuration = PresetPomodoro
    /\ prePauseStudySeconds = 0
    /\ intervalRef = 0
    /\ intervals = {}
    /\ pendingRestart = 0
    /\ inflight = <<>>
    /\ micro = "none"
    /\ rendered = CurDeps
    /\ lastOp = "init"
    /\ lastFrom = "Idle"
    /\ lastSave = NoSave
    /\ alertMsg = ""
    /\ segWrites = 0
    /\ segTicks = 0
    /\ held = NoHeld
    /\ undisturbed = FALSE
    /\ studyData = [d \in LedgerDates |-> <<>>]
    /\ added = [k \in LedgerKeys |-> 0]
    /\ status = 0
    /\ subjectColorsMap = InitialColors(subjects)
    /\ prefRequests = <<>>
    /\ prefStored = [subjects |-> subjects, subjectcolors |-> InitialColors(subjects)]
    /\ prefSent = 0

----------------------------------------------------------------------------
(* Passive effects of a render: the cleanup of the interval effect, the    *)
(* reset effect, then the interval effect.  Their state updates make the   *)
(* next render.                                                            *)

\* fault variant of ResetDuration: the stopwatch gets the Pomodoro countdown
ResetDurationNoStopwatch(m, cm) ==
    CASE m = "reversePomodoro" -> PresetReversePomodoro
      [] m = "custom"          -> CustomDuration(cm)
      [] OTHER                 -> PresetPomodoro

\* durationToSet of the reset effect
ResetDuration(m, cm) ==
    CASE m = "pomodoro"        -> PresetPomodoro
      [] m = "reversePomodoro" -> PresetReversePomodoro
      [] m = "custom"          -> CustomDuration(cm)
      [] OTHER                 -> 0

\* the reset effect alerts and clears the input
ResetRejects(m, cm) ==
    m = "custom" /\ ResetDuration(m, cm) <= 0 /\ cm # <<>>

\* the reset effect acts only when no study and no break is running
ResetGuard == ~timerRunning /\ ~onBreak

\* the interval effect arms a timer only for a study or a break
ArmGuard == timerRunning \/ onBreak

RunEffects ==
    /\ UNCHANGED <<ledgerVars, prefVars>>
    /\ ~Settled
    /\ LET resetDue == ResetDeps(rendered) # ResetDeps(CurDeps)
           doReset  == resetDue /\ ResetGuard
           cleaned  == IF intervalRef # 0 THEN ClearInterval(intervals, intervalRef)
                       ELSE intervals
           newId    == FreshId(cleaned)
       IN  /\ IF ArmGuard
              THEN /\ intervals' = cleaned \cup {Closure(newId)}
                   /\ intervalRef' = newId
              ELSE /\ intervals' = cleaned
                   /\ intervalRef' = 0
           /\ IF doReset
              THEN /\ stopwatchSeconds' = 0
                   /\ countdownTimeLeft' = ResetDuration(mode, customMinutes)
                   /\ initialCountdownDuration' = ResetDuration(mode, customMinutes)
                   /\ prePauseStudySeconds' = 0
                   /\ customMinutes' = IF ResetRejects(mode, customMinutes) THEN <<>>
                                       ELSE customMinutes
                   /\ alertMsg' = IF ResetRejects(mode, customMinutes)
                                  THEN "Invalid custom time. Please enter 1-180 minutes."
                                  ELSE alertMsg
              ELSE UNCHANGED <<stopwatchSeconds, countdownTimeLeft,
                               initialCountdownDuration, prePauseStudySeconds,
                               customMinutes, alertMsg>>
    /\ rendered' = CurDeps
    /\ UNCHANGED <<mode, breakTimeLeft, onBreak, timerRunning, subject, subjects,
                   pendingRestart, inflight, micro,
                   lastOp, lastFrom, lastSave, segWrites, segTicks, held, undisturbed>>

----------------------------------------------------------------------------
(* Event handlers *)

\* fault variant of StartRejected: a handleStart without the check of the subject
StartRejectedCustomOnly ==
    \/ mode = "custom" /\ CustomInvalid(customMinutes)
    \/ mode = "custom" /\ ~timerRunning /\ CustomDuration(customMinutes) <= 0

\* start is refused: no subject, or custom mode without a positive number of minutes
StartRejected ==
    \/ subject = ""
    \/ mode = "custom" /\ CustomInvalid(customMinutes)
    \/ mode = "custom" /\ ~timerRunning /\ CustomDuration(customMinutes) <= 0

\* the countdown is re-armed at start when it is spent or was never set
StartRearms == countdownTimeLeft = 0 \/ initialCountdownDuration = 0

\* the duration handleStart arms in the countdown modes
StartDuration(m, cm) ==
    CASE m = "pomodoro"        -> PresetPomodoro
      [] m = "reversePomodoro" -> PresetReversePomodoro
      [] OTHER                 -> CustomDuration(cm)

HandleStart ==
    /\ UNCHANGED <<ledgerVars, prefVars>>
    /\ Quiescent
    /\ lastSave' = NoSave
    /\ lastFrom' = Phase
    /\ rendered' = rendered
    /\ IF StartRejected
       THEN /\ lastOp' = "startRejected"
            /\ alertMsg' = IF subject = ""
                           THEN "Please select a subject before starting the timer."
                           ELSE IF CustomInvalid(customMinutes)
                           THEN "Please enter a valid custom time (1-180 minutes)."
                           ELSE "Invalid custom time. Please enter 1-180 minutes."
            /\ undisturbed' = FALSE
            /\ UNCHANGED <<timerVars, segWrites, segTicks, held>>
       ELSE IF timerRunning
       THEN /\ lastOp' = "startIgnored"
            /\ alertMsg' = ""
            /\ undisturbed' = FALSE
            /\ UNCHANGED <<timerVars, segWrites, segTicks, held>>
       ELSE /\ lastOp' = "start"
            /\ alertMsg' = ""
            /\ IF mode = "stopwatch"
               THEN /\ initialCountdownDuration' = 0
                    /\ UNCHANGED countdownTimeLeft
               ELSE IF StartRearms
               THEN /\ initialCountdownDuration' = StartDuration(mode, customMinutes)
                    /\ countdownTimeLeft' = StartDuration(mode, customMinutes)
               ELSE UNCHANGED <<initialCountdownDuration, countdownTimeLeft>>
            /\ onBreak' = FALSE
            /\ breakTimeLeft' = 0
            /\ timerRunning' = TRUE
            /\ segWrites' = 0
            /\ segTicks' = 0
            /\ held' = NoHeld
            /\ undisturbed' = TRUE
            /\ UNCHANGED <<mode, customMinutes, stopwatchSeconds,
                           subject, subjects, prePauseStudySeconds, intervalRef,
                           intervals, pendingRestart, inflight, micro>>

\* a handler awaits handleSaveStudyTime: the request is in flight, or the
\* call returned at once and the continuation runs after the render
Await(save, kind) ==
    IF save.sent
    THEN /\ Len(inflight) < MaxInflight
         /\ inflight' = Append(inflight, kind)
         /\ micro' = "none"
    ELSE /\ inflight' = inflight
         /\ micro' = kind

HandleStop ==
    /\ UNCHANGED <<ledgerVars, prefVars>>
    /\ Quiescent
    /\ LET save == HandleSaveStudyTime(
                       StopSecondsStudied(mode, stopwatchSeconds,
                                          initialCountdownDuration, countdownTimeLeft),
                       subject)
       IN  /\ intervals' = IF intervalRef # 0 THEN ClearInterval(intervals, intervalRef)
                           ELSE intervals
           /\ intervalRef' = 0
           /\ timerRunning' = FALSE
           /\ onBreak' = FALSE
           /\ breakTimeLeft' = 0
           /\ lastSave' = Logged(save, IF onBreak /\ ~timerRunning
                                        THEN HeldDrift(held, save.seconds)
                                        ELSE Sign(save.seconds - segTicks))
           /\ segWrites' = Counted(segWrites, save)
           /\ Await(save, "stop")
    /\ lastOp' = "stop"
    /\ lastFrom' = Phase
    /\ alertMsg' = ""
    /\ undisturbed' = FALSE
    /\ segTicks' = 0
    /\ held' = NoHeld
    /\ UNCHANGED <<mode, countdownTimeLeft, customMinutes,
                   stopwatchSeconds, subject, subjects, initialCountdownDuration,
                   prePauseStudySeconds, pendingRestart, rendered>>

HandlePause ==
    /\ UNCHANGED <<ledgerVars, prefVars>>
    /\ Quiescent
    /\ lastOp' = (IF ~timerRunning \/ onBreak THEN "pauseIgnored" ELSE "pause")
    /\ lastFrom' = Phase
    /\ alertMsg' = ""
    /\ undisturbed' = FALSE
    /\ rendered' = rendered
    /\ IF ~timerRunning \/ onBreak
       THEN /\ lastSave' = NoSave
            /\ UNCHANGED <<timerVars, segWrites, segTicks, held>>
       ELSE LET currentSessionStudyTime ==
                    PauseStudyTime(mode, stopwatchSeconds,
                                   initialCountdownDuration, countdownTimeLeft)
                breakDuration == PauseBreak(currentSessionStudyTime)
                save == HandleSaveStudyTime(currentSessionStudyTime, subject)
            IN  /\ intervals' = IF intervalRef # 0
                                THEN ClearInterval(intervals, intervalRef)
                                ELSE intervals
                /\ intervalRef' = 0
                /\ timerRunning' = FALSE
                /\ IF breakDuration > 0
                   THEN /\ breakTimeLeft' = breakDuration
                        /\ onBreak' = TRUE
                        /\ prePauseStudySeconds' = currentSessionStudyTime
                        /\ lastSave' = NoSave
                        /\ segTicks' = 0
                        /\ held' = [seconds |-> currentSessionStudyTime,
                                    drift |-> Sign(currentSessionStudyTime - segTicks)]
                        /\ UNCHANGED <<inflight, micro, segWrites>>
                   ELSE /\ lastSave' = Logged(save, Sign(save.seconds - segTicks))
                        /\ segWrites' = Counted(segWrites, save)
                        /\ segTicks' = 0
                        /\ held' = NoHeld
                        /\ Await(save, "pause")
                        /\ UNCHANGED <<breakTimeLeft, onBreak, prePauseStudySeconds>>
                /\ UNCHANGED <<mode, countdownTimeLeft, customMinutes, stopwatchSeconds,
                               subject, subjects, initialCountdownDuration,
                               pendingRestart>>

\* the code after the await in handleStop and in handlePause
Continuation(kind) ==
    /\ countdownTimeLeft' = 0
    /\ stopwatchSeconds' = 0
    /\ prePauseStudySeconds' = 0
    /\ onBreak' = (IF kind = "pause" THEN FALSE ELSE onBreak)
    /\ UNCHANGED <<mode, breakTimeLeft, timerRunning, customMinutes, subject, subjects,
                   initialCountdownDuration, intervalRef, intervals, pendingRestart,
                   rendered>>

\* the handler's call returned without a request: its continuation runs
\* once the render the handler caused and its effects are done
RunContinuation ==
    /\ UNCHANGED <<ledgerVars, prefVars>>
    /\ Settled
    /\ micro # "none"
    /\ Continuation(micro)
    /\ micro' = "none"
    /\ UNCHANGED <<inflight, lastOp, lastFrom, lastSave, alertMsg, segWrites, segTicks, held, undisturbed>>

\* a ledger request a handler awaits returns (ok or not): the handler continues
SaveReturns ==
    /\ UNCHANGED <<ledgerVars, prefVars>>
    /\ Quiescent
    /\ \E i \in 1..Len(inflight) :
          /\ Continuation(inflight[i])
          /\ inflight' = SubSeq(inflight, 1, i - 1) \o SubSeq(inflight, i + 1, Len(inflight))
    /\ micro' = "none"
    /\ lastOp' = "saveReturned"
    /\ lastFrom' = Phase
    /\ lastSave' = NoSave
    /\ alertMsg' = ""
    /\ UNCHANGED <<segWrites, segTicks, held, undisturbed>>

\* fault variant of SwitchSave: a mode button that saves the elapsed study time
SwitchSaveElapsed(m, sw, icd, ctl, subj) ==
    HandleSaveStudyTime(StopSecondsStudied(m, sw, icd, ctl), subj)

\* the onClick of a mode button makes no call of handleSaveStudyTime
SwitchSave(m, sw, icd, ctl, subj) == NoCall

\* onClick of a mode button
HandleSelectMode(m) ==
    /\ UNCHANGED <<ledgerVars, prefVars>>
    /\ Quiescent
    /\ mode' = m
    /\ onBreak' = FALSE
    /\ timerRunning' = FALSE
    /\ stopwatchSeconds' = 0
    /\ countdownTimeLeft' = 0
    /\ initialCountdownDuration' = 0
    /\ prePauseStudySeconds' = 0
    /\ intervals' = IF intervalRef # 0 THEN ClearInterval(intervals, intervalRef)
                    ELSE intervals
    /\ intervalRef' = 0
    /\ breakTimeLeft' = 0
    /\ lastOp' = "selectMode"
    /\ lastFrom' = Phase
    /\ LET save == SwitchSave(mode, stopwatchSeconds, initialCountdownDuration,
                              countdownTimeLeft, subject)
       IN  /\ lastSave' = Logged(save, 0)
           /\ segWrites' = Counted(segWrites, save)
    /\ alertMsg' = ""
    /\ undisturbed' = FALSE
    /\ segTicks' = 0
    /\ held' = NoHeld
    /\ UNCHANGED <<customMinutes, subject, subjects, pendingRestart,
                   inflight, micro, rendered>>

\* onChange of the subject selector
SelectSubject(s) ==
    /\ UNCHANGED <<ledgerVars, prefVars>>
    /\ Quiescent
    /\ s # subject
    /\ subject' = s
    /\ lastOp' = "selectSubject"
    /\ lastFrom' = Phase
    /\ lastSave' = NoSave
    /\ alertMsg' = ""
    /\ undisturbed' = FALSE
    /\ UNCHANGED <<mode, countdownTimeLeft, breakTimeLeft, onBreak, timerRunning,
                   customMinutes, stopwatchSeconds, subjects, initialCountdownDuration,
                   prePauseStudySeconds, intervalRef, intervals, pendingRestart,
                   inflight, micro, rendered, segWrites, segTicks, held>>

\* onChange of the minutes input
EditCustomMinutes(v) ==
    /\ UNCHANGED <<ledgerVars, prefVars>>
    /\ Quiescent
    /\ v # customMinutes
    /\ customMinutes' = v
    /\ lastOp' = "editCustomMinutes"
    /\ lastFrom' = Phase
    /\ lastSave' = NoSave
    /\ alertMsg' = ""
    /\ undisturbed' = FALSE
    /\ UNCHANGED <<mode, countdownTimeLeft, breakTimeLeft, onBreak, timerRunning,
                   stopwatchSeconds, subject, subjects, initialCountdownDuration,
                   prePauseStudySeconds, intervalRef, intervals, pendingRestart,
                   inflight, micro, rendered, segWrites, segTicks, held>>

----------------------------------------------------------------------------
(* Subject management *)

\* what a handler of the subject forms leaves alone
SubjectFormFrame ==
    UNCHANGED <<mode, countdownTimeLeft, breakTimeLeft, onBreak, timerRunning,
                customMinutes, stopwatchSeconds, initialCountdownDuration,
                prePauseStudySeconds, intervalRef, intervals, pendingRestart,
                inflight, micro, rendered, segWrites, segTicks, held, ledgerVars>>

\* handleAddSubject, up to its await
HandleAddSubject(input, color) ==
    /\ Quiescent
    /\ LET name == AddSubjectName(input)
       IN  IF name = ""
              THEN /\ alertMsg' = "Subject name cannot be empty."
                   /\ lastOp' = "addRejected"
                   /\ UNCHANGED <<subjects, subjectColorsMap, subject, prefRequests, prefSent>>
              ELSE IF Includes(subjects, name)
              THEN /\ alertMsg' = "Subject already exists."
                   /\ lastOp' = "addRejected"
                   /\ UNCHANGED <<subjects, subjectColorsMap, subject, prefRequests, prefSent>>
              ELSE IF ColorInUse(subjectColorsMap, color)
              THEN /\ alertMsg' = "Color already in use. Please choose a different one."
                   /\ lastOp' = "addRejected"
                   /\ UNCHANGED <<subjects, subjectColorsMap, subject, prefRequests, prefSent>>
              ELSE LET updatedSubjects == Append(subjects, name)
                       updatedColors   == WithColor(subjectColorsMap, name, color)
                   IN  /\ prefSent < MaxPrefSent
                       /\ prefSent' = prefSent + 1
                       /\ subjects' = updatedSubjects
                       /\ subjectColorsMap' = updatedColors
                       /\ subject' = IF subject = "" \/ Len(subjects) = 0 THEN name
                                     ELSE subject
                       /\ prefRequests' = Append(prefRequests,
                              PrefRequest("add", updatedSubjects, updatedColors))
                       /\ alertMsg' = ""
                       /\ lastOp' = "addSubject"
    /\ lastFrom' = Phase
    /\ lastSave' = NoSave
    /\ undisturbed' = FALSE
    /\ UNCHANGED prefStored
    /\ SubjectFormFrame

\* onClick of Delete Selected, up to its await; confirmed is the answer to confirm()
HandleDeleteSubject(confirmed) ==
    /\ Quiescent
    /\ IF subject = ""
       THEN /\ alertMsg' = "Please select a subject to delete."
            /\ lastOp' = "deleteRejected"
            /\ UNCHANGED <<subjects, subjectColorsMap, subject, prefRequests, prefSent>>
       ELSE IF ~confirmed
       THEN /\ alertMsg' = ""
            /\ lastOp' = "deleteCancelled"
            /\ UNCHANGED <<subjects, subjectColorsMap, subject, prefRequests, prefSent>>
       ELSE LET updatedSubjects == WithoutSubject(subjects, subject)
                updatedColors   == WithoutColor(subjectColorsMap, subject)
            IN  /\ prefSent < MaxPrefSent
                /\ prefSent' = prefSent + 1
                /\ subjects' = updatedSubjects
                /\ subjectColorsMap' = updatedColors
                /\ subject' = IF Len(updatedSubjects) > 0 THEN updatedSubjects[1] ELSE ""
                /\ prefRequests' = Append(prefRequests,
                       PrefRequest("delete", updatedSubjects, updatedColors))
                /\ alertMsg' = ""
                /\ lastOp' = "deleteSubject"
    /\ lastFrom' = Phase
    /\ lastSave' = NoSave
    /\ undisturbed' = FALSE
    /\ UNCHANGED prefStored
    /\ SubjectFormFrame

\* the sequence without its i-th element
Without(q, i) == SubSeq(q, 1, i - 1) \o SubSeq(q, i + 1, Len(q))

\* $set: { subjects, subjectcolors } with upsert
PrefPostStores(stored, req) ==
    [subjects |-> req.subjects, subjectcolors |-> req.subjectcolors]

\* POST /api/user/preferences handles the i-th request: the document is set
\* and the answer is 200, or the database fails and the answer is 500
PrefPost(i, ok) ==
    /\ i \in 1..Len(prefRequests)
    /\ prefRequests[i].reply = 0
    /\ IF ok
       THEN /\ prefStored' = PrefPostStores(prefStored, prefRequests[i])
            /\ prefRequests' = [prefRequests EXCEPT ![i].reply = 200]
       ELSE /\ prefStored' = prefStored
            /\ prefRequests' = [prefRequests EXCEPT ![i].reply = 500]
    /\ UNCHANGED <<timerVars, rendered, lastOp, lastFrom, lastSave, alertMsg, segWrites,
                   segTicks, held, undisturbed, ledgerVars, subjectColorsMap, prefSent>>

\* the answer to the i-th request arrives: the handler goes on after its await
PrefReturns(i) ==
    /\ Quiescent
    /\ i \in 1..Len(prefRequests)
    /\ prefRequests[i].reply # 0
    /\ LET req == prefRequests[i]
       IN  IF req.reply = 200
           THEN /\ alertMsg' = ""
                /\ UNCHANGED <<subjects, subjectColorsMap, subject>>
           ELSE /\ subjects' = req.prevSubjects
                /\ subjectColorsMap' = req.prevColors
                /\ subject' = IF req.op = "delete" THEN req.prevSubject ELSE subject
                /\ alertMsg' = IF req.op = "add" THEN "Failed to add subject"
                               ELSE "Failed to delete subject"
    /\ prefRequests' = Without(prefRequests, i)
    /\ lastOp' = "prefReturned"
    /\ lastFrom' = Phase
    /\ lastSave' = NoSave
    /\ UNCHANGED <<prefStored, prefSent, undisturbed>>
    /\ SubjectFormFrame

\* fetch rejects (no connection, or the answer is lost): the handler alerts
\* and restores nothing
PrefFetchFails(i) ==
    /\ Quiescent
    /\ i \in 1..Len(prefRequests)
    /\ prefRequests' = Without(prefRequests, i)
    /\ alertMsg' = IF prefRequests[i].op = "add" THEN "Failed to add subject"
                   ELSE "Failed to delete subject"
    /\ lastOp' = "prefFailed"
    /\ lastFrom' = Phase
    /\ lastSave' = NoSave
    /\ UNCHANGED <<subjects, subjectColorsMap, subject, prefStored, prefSent, undisturbed>>
    /\ SubjectFormFrame

----------------------------------------------------------------------------
(* Timer callbacks.  A tick is the callback of an armed interval and uses  *)
(* the values that callback closed over.  The auto-restart is due 50 ms    *)
(* after the break ended, so no tick of an interval (1000 ms) comes first. *)

TickGuard(iv) == Quiescent /\ iv \in intervals /\ pendingRestart = 0

\* a break tick ends the break when it reads a remaining time of 1 or less
BreakEnds(prev) == prev <= 1

\* a study tick ends the countdown when it reads a remaining time of 1 or less
StudyEnds(prev) == prev <= 1

\* the break tick ends the break: the held study time is saved, the next
\* countdown is prepared and the restart is scheduled
BreakTick(iv) ==
    /\ UNCHANGED <<ledgerVars, prefVars>>
    /\ TickGuard(iv)
    /\ iv.onBreak
    /\ IF BreakEnds(breakTimeLeft)
       THEN LET save == HandleSaveStudyTime(iv.prePauseStudySeconds, iv.subject)
                nextStudyDuration == NextStudyDuration(iv.mode, iv.customMinutes)
            IN  /\ intervals' = ClearInterval(intervals, intervalRef)
                /\ intervalRef' = 0
                /\ onBreak' = FALSE
                /\ lastSave' = Logged(save, HeldDrift(held, save.seconds))
                /\ segWrites' = Counted(segWrites, save)
                /\ segTicks' = 0
                /\ held' = NoHeld
                /\ prePauseStudySeconds' = 0
                /\ IF iv.mode # "stopwatch" /\ nextStudyDuration > 0
                   THEN /\ countdownTimeLeft' = nextStudyDuration
                        /\ initialCountdownDuration' = nextStudyDuration
                   ELSE UNCHANGED <<countdownTimeLeft, initialCountdownDuration>>
                /\ stopwatchSeconds' = 0
                /\ pendingRestart' = pendingRestart + 1
                /\ breakTimeLeft' = 0
                /\ lastOp' = "breakDone"
                /\ lastFrom' = Phase
       ELSE /\ breakTimeLeft' = breakTimeLeft - 1
            /\ lastOp' = "breakTick"
            /\ lastFrom' = Phase
            /\ lastSave' = NoSave
            /\ UNCHANGED <<intervals, intervalRef, onBreak, segWrites, segTicks, held,
                           prePauseStudySeconds, countdownTimeLeft,
                           initialCountdownDuration, stopwatchSeconds, pendingRestart>>
    /\ alertMsg' = ""
    /\ UNCHANGED <<mode, timerRunning, customMinutes, subject, subjects,
                   inflight, micro, rendered, undisturbed>>

StopwatchTick(iv) ==
    /\ UNCHANGED <<ledgerVars, prefVars>>
    /\ TickGuard(iv)
    /\ ~iv.onBreak /\ iv.timerRunning /\ iv.mode = "stopwatch"
    /\ stopwatchSeconds < MaxStopwatch
    /\ stopwatchSeconds' = stopwatchSeconds + 1
    /\ segTicks' = segTicks + 1
    /\ held' = held
    /\ lastOp' = "studyTick"
    /\ lastFrom' = Phase
    /\ lastSave' = NoSave
    /\ alertMsg' = ""
    /\ UNCHANGED <<mode, countdownTimeLeft, breakTimeLeft, onBreak, timerRunning,
                   customMinutes, subject, subjects, initialCountdownDuration,
                   prePauseStudySeconds, intervalRef, intervals, pendingRestart,
                   inflight, micro, rendered, segWrites, undisturbed>>

\* a countdown that ends with a break saves nothing yet: the study time is
\* held for the end of the break
CompletionSave(breakDuration, actualStudyTimeCompleted, subj) ==
    IF breakDuration > 0 THEN NoCall
    ELSE HandleSaveStudyTime(actualStudyTimeCompleted, subj)

CountdownTick(iv) ==
    /\ UNCHANGED <<ledgerVars, prefVars>>
    /\ TickGuard(iv)
    /\ ~iv.onBreak /\ iv.timerRunning /\ iv.mode # "stopwatch"
    /\ alertMsg' = ""
    /\ IF StudyEnds(countdownTimeLeft)
       THEN LET actualStudyTimeCompleted == iv.initialCountdownDuration
                breakDuration == CompletionBreak(iv.mode, actualStudyTimeCompleted)
                save == CompletionSave(breakDuration, actualStudyTimeCompleted, iv.subject)
                nextStudyDuration == NextStudyDuration(iv.mode, iv.customMinutes)
            IN  /\ intervals' = ClearInterval(intervals, intervalRef)
                /\ intervalRef' = 0
                /\ timerRunning' = FALSE
                /\ lastOp' = "studyDone"
                /\ lastFrom' = Phase
                /\ lastSave' = Logged(save, Sign(save.seconds - (segTicks + 1)))
                /\ segWrites' = Counted(segWrites, save)
                /\ IF breakDuration > 0
                   THEN /\ breakTimeLeft' = breakDuration
                        /\ onBreak' = TRUE
                        /\ prePauseStudySeconds' = actualStudyTimeCompleted
                        /\ countdownTimeLeft' = 0
                        /\ segTicks' = 0
                        /\ held' = [seconds |-> actualStudyTimeCompleted,
                                    drift |-> Sign(actualStudyTimeCompleted - (segTicks + 1))]
                        /\ UNCHANGED <<stopwatchSeconds, initialCountdownDuration>>
                   ELSE /\ segTicks' = 0
                        /\ held' = NoHeld
                        /\ stopwatchSeconds' = 0
                        \* setCountdownTimeLeft(nextStudyDuration) is called inside the
                        \* updater that returns 0: either update may be applied last
                        /\ countdownTimeLeft' \in {0, nextStudyDuration}
                        /\ initialCountdownDuration' = nextStudyDuration
                        /\ prePauseStudySeconds' = 0
                        /\ onBreak' = FALSE
                        /\ UNCHANGED breakTimeLeft
       ELSE /\ countdownTimeLeft' = countdownTimeLeft - 1
            /\ segTicks' = segTicks + 1
            /\ held' = held
            /\ lastOp' = "studyTick"
            /\ lastFrom' = Phase
            /\ lastSave' = NoSave
            /\ UNCHANGED <<intervals, intervalRef, timerRunning, breakTimeLeft, onBreak,
                           prePauseStudySeconds, stopwatchSeconds,
                           initialCountdownDuration, segWrites>>
    /\ UNCHANGED <<mode, customMinutes, subject, subjects, pendingRestart,
                   inflight, micro, rendered, undisturbed>>

\* the callback of setTimeout(() => setTimerRunning(true), 50)
Restart ==
    /\ UNCHANGED <<ledgerVars, prefVars>>
    /\ Quiescent
    /\ pendingRestart > 0
    /\ pendingRestart' = pendingRestart - 1
    /\ timerRunning' = TRUE
    /\ segWrites' = (IF timerRunning THEN segWrites ELSE 0)
    /\ segTicks' = (IF timerRunning THEN segTicks ELSE 0)
    /\ held' = (IF timerRunning THEN held ELSE NoHeld)
    /\ lastOp' = "restart"
    /\ lastFrom' = Phase
    /\ lastSave' = NoSave
    /\ alertMsg' = ""
    /\ UNCHANGED <<mode, countdownTimeLeft, breakTimeLeft, onBreak, customMinutes,
                   stopwatchSeconds, subject, subjects, initialCountdownDuration,
                   prePauseStudySeconds, intervalRef, intervals, inflight, micro,
                   rendered, undisturbed>>

----------------------------------------------------------------------------
(* What the page lets the user do: the buttons it renders and enables *)

StartShown == ~timerRunning /\ ~onBreak

StartDisabled == subject = "" \/ (mode = "custom" /\ CustomInvalid(customMinutes))

StartEnabled == StartShown /\ ~StartDisabled

PauseShown == timerRunning /\ mode \in {"custom", "stopwatch"}

StopShown == timerRunning \/ onBreak

ClickStart == StartEnabled /\ HandleStart

ClickPause == PauseShown /\ HandlePause

ClickStop == StopShown /\ HandleStop

ClickMode == \E m \in Modes : HandleSelectMode(m)

ChangeSubject == \E i \in 1..Len(subjects) : SelectSubject(subjects[i])

TypeMinutes == mode = "custom" /\ \E v \in CustomInputs : EditCustomMinutes(v)

Tick == \E iv \in intervals : BreakTick(iv) \/ StopwatchTick(iv) \/ CountdownTick(iv)

\* the handlers called where the page offers no enabled button for them:
\* start() on a configuration it refuses, stop() when nothing runs
CallStart == StartDisabled /\ HandleStart

CallStop == ~StopShown /\ HandleStop

\* the timer controls of the page; the subject selector is used in NextSession
Next ==
    \/ RunEffects
    \/ RunContinuation
    \/ SaveReturns
    \/ Restart
    \/ Tick
    \/ ClickStart
    \/ ClickPause
    \/ ClickStop
    \/ ClickMode
    \/ TypeMinutes

Spec == Init /\ [][Next]_vars

\* the handlers as operations, callable in every phase
NextApi ==
    \/ Next
    \/ CallStart
    \/ CallStop

SpecApi == Init /\ [][NextApi]_vars

\* the ledger under the requests of one user
PostAny ==
    \E date \in LedgerDates \cup {""}, subj \in LedgerSubjects,
       duration \in 1..MaxPostTenths : Post(date, subj, duration)

NextLedger == PostAny

SpecLedger == Init /\ [][NextLedger]_vars

\* the subject forms: Add Subject is always enabled, Delete Selected needs a selection
DeleteDisabled == subject = "" \/ Len(subjects) = 0

ClickAdd == \E input \in NewSubjectInputs, color \in NewColorInputs :
                HandleAddSubject(input, color)

ClickDelete == ~DeleteDisabled /\ \E confirmed \in BOOLEAN : HandleDeleteSubject(confirmed)

PrefServer == \E i \in 1..Len(prefRequests), ok \in BOOLEAN : PrefPost(i, ok)

PrefAnswer == \E i \in 1..Len(prefRequests) : PrefReturns(i)

PrefLost == \E i \in 1..Len(prefRequests) : PrefFetchFails(i)

\* the subject forms and the preferences route, the timer left idle
NextPrefs ==
    \/ RunEffects
    \/ ClickAdd
    \/ ClickDelete
    \/ ChangeSubject
    \/ PrefServer
    \/ PrefAnswer
    \/ PrefLost

SpecPrefs == Init /\ [][NextPrefs]_vars

\* a Pomodoro session during which subjects are selected and deleted; the
\* preferences request of a deletion stays in flight or its fetch fails
NextSession ==
    \/ RunEffects
    \/ RunContinuation
    \/ SaveReturns
    \/ Restart
    \/ Tick
    \/ ClickStart
    \/ ClickStop
    \/ ChangeSubject
    \/ ClickDelete
    \/ PrefLost

SpecSession == Init /\ [][NextSession]_vars

\* the timer with its buttons for start, stop and the modes; the browser
\* runs every effect pass, continuation, interval tick and timeout that is due
NextCycle ==
    \/ RunEffects
    \/ RunContinuation
    \/ SaveReturns
    \/ Restart
    \/ Tick
    \/ ClickStart
    \/ ClickStop
    \/ ClickMode

\* pause() called where the page shows no Pause button
CallPause == ~PauseShown /\ HandlePause

\* a Pomodoro session with start, and pause() as an operation
NextPause ==
    \/ RunEffects
    \/ RunContinuation
    \/ Restart
    \/ Tick
    \/ ClickStart
    \/ CallPause

SpecPause == Init /\ [][NextPause]_vars

SpecCycle ==
    /\ Init
    /\ [][NextCycle]_vars
    /\ WF_vars(RunEffects)
    /\ WF_vars(RunContinuation)
    /\ WF_vars(Restart)
    /\ WF_vars(Tick)

----------------------------------------------------------------------------
(* Properties *)

\* C1: a study segment is credited by at most one ledger request, whatever
\* operations follow it (the break running out, the break or the study
\* being stopped)
C1_OneWritePerSegment == segWrites <= 1

\* C2: at most one interval is armed, and it is the one intervalRef holds;
\* the interval armed for a phase replaces the one of the phase before
C2_OneTickLoop ==
    /\ Cardinality(intervals) <= 1
    /\ \A iv \in intervals : iv.id = intervalRef
    /\ (intervalRef # 0 => \E iv \in intervals : iv.id = intervalRef)

\* the break loop runs after the study loop of a finished countdown was cancelled
C2_Witness ==
    /\ Quiescent
    /\ lastOp = "studyDone"
    /\ onBreak
    /\ \E iv \in intervals : iv.onBreak /\ ~iv.timerRunning

\* C3: a Pomodoro study phase of 1500 ticks followed by its break, with no
\* user operation after start(), saves nothing when the study phase ends and
\* ends with one request of 0.4 hours for the selected subject
C3_FullPomodoroCycle ==
    [][(/\ mode = "pomodoro" /\ undisturbed
        /\ \E iv \in intervals : BreakTick(iv) \/ CountdownTick(iv))
       => /\ (lastOp' = "studyDone" => lastSave'.calls = 0 /\ segWrites' = 0)
          /\ (lastOp' \in {"studyTick", "breakTick"} => segWrites' = 0)
          /\ (lastOp' = "breakDone" /\ held = [seconds |-> PresetPomodoro, drift |-> 0]
                => /\ lastSave'.sent
                   /\ lastSave'.tenths = 4
                   /\ lastSave'.subject = subject
                   /\ segWrites' = 1)]_vars

\* C4: a stop() that follows a stop() sends nothing, alerts nothing and
\* changes nothing
C4_SecondStopIsNoOp ==
    [][(lastOp = "stop" /\ CallStop)
       => /\ ~lastSave'.sent
          /\ alertMsg' = ""
          /\ UNCHANGED <<mode, countdownTimeLeft, breakTimeLeft, onBreak, timerRunning,
                         customMinutes, stopwatchSeconds, subject, subjects,
                         initialCountdownDuration, prePauseStudySeconds, intervalRef,
                         intervals, pendingRestart, inflight>>]_vars

\* the study seconds of the running segment, as the interval engine defines them
C5_ActualStudySeconds ==
    IF mode = "stopwatch" THEN stopwatchSeconds
    ELSE initialCountdownDuration - countdownTimeLeft

\* C5: stop() during a study or a break leaves the timer idle with no
\* interval armed and calls handleSaveStudyTime once, with the study seconds
\* of the segment; when its await is over the counters are zero
C5_StopCredits ==
    /\ [][ClickStop
          => /\ Phase' = "Idle"
             /\ intervals' = {} /\ intervalRef' = 0
             /\ lastSave'.calls = 1
             /\ lastSave'.seconds = C5_ActualStudySeconds]_vars
    /\ []((lastOp = "stop" /\ ~lastSave.sent /\ Quiescent) \/ lastOp = "saveReturned"
             => /\ countdownTimeLeft = 0
                /\ stopwatchSeconds = 0
                /\ prePauseStudySeconds = 0)

\* a study was stopped after some seconds and they were handed to the bridge
C5_Witness ==
    /\ Quiescent
    /\ lastOp = "stop"
    /\ lastFrom = "Studying"
    /\ lastSave.calls = 1 /\ lastSave.seconds > 0 /\ ~lastSave.sent
    /\ Phase = "Idle"
    /\ countdownTimeLeft = 0

\* C6: a click on a mode button during a study or a break cancels the
\* interval, leaves the timer idle, calls handleSaveStudyTime not at all and
\* keeps nothing of the segment: its counters and the held seconds are zero
C6_SwitchDiscards ==
    [][(ClickMode /\ Phase \in {"Studying", "OnBreak"})
       => /\ Phase' = "Idle"
          /\ intervals' = {} /\ intervalRef' = 0
          /\ lastSave'.calls = 0
          /\ segWrites' = segWrites /\ inflight' = inflight /\ micro' = "none"
          /\ stopwatchSeconds' = 0
          /\ countdownTimeLeft' = 0
          /\ initialCountdownDuration' = 0
          /\ prePauseStudySeconds' = 0]_vars

\* the mode was switched during a break that held study seconds
C6_Witness ==
    /\ lastOp = "selectMode"
    /\ lastFrom = "OnBreak"
    /\ Phase = "Idle"
    /\ lastSave.calls = 0

\* C7: in the countdown modes a study tick takes exactly one second off
\* countdownTimeLeft until it is 0, and countdownTimeLeft is never negative
C7_CountdownNeverNegative ==
    /\ [](countdownTimeLeft >= 0)
    /\ [][(/\ \E iv \in intervals : CountdownTick(iv)
           /\ countdownTimeLeft >= 1)
          => countdownTimeLeft' = countdownTimeLeft - 1]_vars

\* a configuration start() has to refuse
C8_BadConfig ==
    \/ subject = ""
    \/ /\ mode = "custom"
       /\ \/ customMinutes = <<>>
          \/ ~ParseInt(customMinutes).nan /\ ParseInt(customMinutes).val <= 0

\* C8: start() on such a configuration alerts and changes nothing
C8_StartRejected ==
    [][((ClickStart \/ CallStart) /\ C8_BadConfig)
       => /\ lastOp' = "startRejected"
          /\ alertMsg' # ""
          /\ UNCHANGED timerVars]_vars

\* start() was refused in custom mode for its minutes, with a subject selected
C8_Witness ==
    /\ lastOp = "startRejected"
    /\ mode = "custom"
    /\ subject # ""
    /\ alertMsg = "Please enter a valid custom time (1-180 minutes)."

\* computeBreak of the break scheduler
C9_ComputeBreak(m, actualStudySeconds) ==
    CASE m = "pomodoro"        -> 300
      [] m = "reversePomodoro" -> 1500
      [] OTHER                 -> actualStudySeconds \div 3

\* C9: whenever a break is entered its duration is computeBreak of the mode
\* and of the study seconds (the target of a finished countdown, the seconds
\* elapsed at a pause)
C9_BreakDuration ==
    [][(~onBreak /\ onBreak')
       => LET actual == IF lastOp' = "pause" THEN C5_ActualStudySeconds
                        ELSE initialCountdownDuration
          IN  /\ breakTimeLeft' = C9_ComputeBreak(mode, actual)
              /\ prePauseStudySeconds' = actual]_vars

\* a custom countdown of 180 s ended with a break of 60 s
C9_Witness ==
    /\ lastOp = "studyDone"
    /\ mode = "custom"
    /\ onBreak
    /\ prePauseStudySeconds = 180
    /\ breakTimeLeft = 60

\* C10: the stopwatch shows the study ticks since start(); a pause in custom
\* or stopwatch mode after e >= 3 seconds enters a break of e \div 3 seconds
\* that holds e
C10_StopwatchCounts ==
    /\ [](mode = "stopwatch" /\ timerRunning => stopwatchSeconds = segTicks)
    /\ [][(ClickPause /\ C5_ActualStudySeconds >= 3)
          => /\ onBreak'
             /\ prePauseStudySeconds' = C5_ActualStudySeconds
             /\ breakTimeLeft' = C5_ActualStudySeconds \div 3]_vars

\* C11: whenever a break is running the held study seconds are positive, and
\* a break begins only by a countdown reaching its end or by a pause
C11_BreakHoldsStudy ==
    /\ [](Phase = "OnBreak" => prePauseStudySeconds > 0)
    /\ [][(~onBreak /\ onBreak') => lastOp' \in {"studyDone", "pause"}]_vars

\* C12: when a break runs out in a countdown mode the held seconds are handed
\* to handleSaveStudyTime and the next study is armed with the target of the
\* study before the break, the countdown standing at that target; the effects
\* of that render keep both and the restart callback starts the study
C12_AutoContinue ==
    /\ [][(/\ \E iv \in intervals : BreakTick(iv)
           /\ lastOp' = "breakDone"
           /\ mode # "stopwatch")
          => /\ lastSave'.calls = 1
             /\ lastSave'.seconds = prePauseStudySeconds
             /\ pendingRestart' = pendingRestart + 1
             /\ initialCountdownDuration' = initialCountdownDuration
             /\ countdownTimeLeft' = initialCountdownDuration]_vars
    /\ [][(RunEffects /\ lastOp = "breakDone" /\ mode # "stopwatch")
          => UNCHANGED <<initialCountdownDuration, countdownTimeLeft>>]_vars
    /\ [][(Restart /\ lastOp = "breakDone" /\ mode # "stopwatch")
          => Phase' = "Studying"]_vars

\* C13: in stopwatch mode a study begins only by start()
C13_StopwatchNeverAutoCycles ==
    [][(mode' = "stopwatch" /\ ~timerRunning /\ timerRunning') => lastOp' = "start"]_vars

\* C14: a stop() during a break calls handleSaveStudyTime once, with the
\* study seconds that were held when the break began
C14_StopBreakCreditsHeld ==
    [][(ClickStop /\ Phase = "OnBreak")
       => /\ lastSave'.calls = 1
          /\ lastSave'.seconds = held.seconds]_vars

\* seconds / 3600 rounded to one decimal, in tenths of an hour: the tenth
\* nearest to seconds / 360, the half going up
C15_NearestTenth(seconds) ==
    CHOOSE t \in ((seconds \div 360) - 1)..((seconds \div 360) + 1) :
        /\ 2 * seconds >= 2 * 360 * t - 360
        /\ 2 * seconds <  2 * 360 * t + 360

\* C15: a call of handleSaveStudyTime computes the nearest tenth of an hour,
\* sends it when it is positive and sends nothing when it is zero or less; a
\* stop() that finds no study seconds sends nothing
C15_CommitRounds ==
    /\ lastSave.calls = 1
          => /\ lastSave.tenths = C15_NearestTenth(lastSave.seconds)
             /\ (lastSave.sent => lastSave.tenths > 0)
             /\ (lastSave.tenths > 0 /\ lastSave.subject # "" => lastSave.sent)
    /\ lastOp = "stop" /\ lastSave.seconds = 0 => ~lastSave.sent

\* a stop after 180 s of study sent 0.1 h: 0.05 h goes up
C15_Witness ==
    /\ lastOp = "stop"
    /\ lastSave.seconds = 180
    /\ lastSave.tenths = 1
    /\ lastSave.sent

\* C16: the return of a ledger request, with or without success, changes no
\* phase and no counter of the timer
C16_WriteLeavesTimerAlone ==
    [][SaveReturns
       => UNCHANGED <<mode, onBreak, timerRunning, countdownTimeLeft, breakTimeLeft,
                      stopwatchSeconds, initialCountdownDuration,
                      prePauseStudySeconds>>]_vars

\* C17: in custom mode a study runs on a target between 60 s and 10800 s
C17_CustomDurationInRange ==
    (mode = "custom" /\ Phase = "Studying")
        => (initialCountdownDuration >= 60 /\ initialCountdownDuration <= 10800)

\* C18: once the render after a click on a mode button has run its effects
\* the timer is idle, no interval is armed, and the counters are those of the
\* mode: 1500 s for Pomodoro, 300 s for ReversePomodoro, stopwatch at 0
C18_SelectModeResets ==
    (lastOp = "selectMode" /\ Settled)
        => /\ Phase = "Idle"
           /\ intervals = {} /\ intervalRef = 0
           /\ (mode = "pomodoro"
                  => /\ initialCountdownDuration = 1500
                     /\ countdownTimeLeft = 1500)
           /\ (mode = "reversePomodoro"
                  => /\ initialCountdownDuration = 300
                     /\ countdownTimeLeft = 300)
           /\ (mode = "stopwatch" => stopwatchSeconds = 0)

\* C20: the stopwatch counts in stopwatchSeconds with countdownTimeLeft at 0,
\* the countdown modes count in countdownTimeLeft with stopwatchSeconds at 0,
\* and a study tick moves only the counter of its mode
C20_OneCounterPerMode ==
    /\ [](mode = "stopwatch" => countdownTimeLeft = 0)
    /\ [](mode # "stopwatch" => stopwatchSeconds = 0)
    /\ [][(\E iv \in intervals : StopwatchTick(iv))
          => /\ stopwatchSeconds' = stopwatchSeconds + 1
             /\ UNCHANGED <<countdownTimeLeft, initialCountdownDuration,
                            breakTimeLeft, prePauseStudySeconds>>]_vars
    /\ [][(\E iv \in intervals : CountdownTick(iv))
          => /\ UNCHANGED stopwatchSeconds
             /\ (lastOp' = "studyTick"
                    => /\ countdownTimeLeft' = countdownTimeLeft - 1
                       /\ UNCHANGED <<initialCountdownDuration, breakTimeLeft,
                                      prePauseStudySeconds>>)]_vars

\* the stopwatch has counted 125 ticks
C20_Witness ==
    /\ mode = "stopwatch"
    /\ lastOp = "studyTick"
    /\ stopwatchSeconds = 125
    /\ countdownTimeLeft = 0

\* C19: each (date, subject) holds the sum of the hours of the calls that
\* succeeded for it, nothing before the first of them, and a call for one
\* (date, subject) changes what no other one holds
C19_LedgerAdditive ==
    /\ [](\A k \in LedgerKeys :
             StoredHours(studyData, k[1], k[2]) =
                 IF added[k] = 0 THEN [kind |-> "absent", hours |-> 0]
                 ELSE [kind |-> "number", hours |-> added[k]])
    /\ [][\A k \in LedgerKeys :
             added'[k] = added[k]
                => StoredHours(studyData', k[1], k[2]) = StoredHours(studyData, k[1], k[2])]_vars

\* C21: while a study or a break runs, a subject is selected and it is one
\* of the subjects of the list
C21_SubjectInList ==
    Phase \in {"Studying", "OnBreak"}
        => subject # "" /\ Includes(subjects, subject)

\* the last step was an operation of the user
C22_UserActed ==
    lastOp \in {"start", "startRejected", "startIgnored", "stop", "pause",
                "pauseIgnored", "selectMode", "selectSubject", "editCustomMinutes"}

\* C22: while ticks keep firing and the user does nothing, a study of a
\* countdown mode leads to a break, a break leads to its end, the end of a
\* break hands the study seconds held for it to handleSaveStudyTime, and in
\* the countdown modes the end of a break leads to a study
C22_CycleProgress ==
    /\ (Phase = "Studying" /\ mode # "stopwatch")
          ~> (Phase = "OnBreak" \/ C22_UserActed)
    /\ (Phase = "OnBreak") ~> (lastOp = "breakDone" \/ C22_UserActed)
    /\ [][(\E iv \in intervals : BreakTick(iv)) /\ lastOp' = "breakDone"
             => lastSave'.calls = 1 /\ lastSave'.seconds = held.seconds]_vars
    /\ (lastOp = "breakDone" /\ mode # "stopwatch")
          ~> (Phase = "Studying" \/ C22_UserActed)

\* C23: in Pomodoro and ReversePomodoro a pause() during a study does what
\* stop() does: the timer is idle, no break begins, and the study seconds
\* of the segment go to handleSaveStudyTime in one call
C23_PauseIsStop ==
    [][(HandlePause /\ mode \in {"pomodoro", "reversePomodoro"} /\ Phase = "Studying")
       => /\ Phase' = "Idle"
          /\ ~onBreak'
          /\ lastSave'.calls = 1
          /\ lastSave'.seconds = C5_ActualStudySeconds]_vars

\* C24: a countdown armed with N >= 1 seconds reaches its end on the N-th
\* study tick; a break tick that reads more than 1 second takes one second
\* off and the one that reads 1 or less ends the break, a running break has
\* at least 1 second left and nothing but its ticks changes that, so a
\* break of B seconds ends on its B-th tick; breakTimeLeft is never negative
C24_CompleteOnLastTick ==
    /\ [](breakTimeLeft >= 0)
    /\ [](onBreak => breakTimeLeft >= 1)
    /\ [][((\E iv \in intervals : CountdownTick(iv))
              /\ lastOp' = "studyDone" /\ initialCountdownDuration >= 1)
          => segTicks + 1 = initialCountdownDuration]_vars
    /\ [][(\E iv \in intervals : BreakTick(iv))
          => IF breakTimeLeft <= 1 THEN lastOp' = "breakDone" /\ ~onBreak'
             ELSE breakTimeLeft' = breakTimeLeft - 1 /\ onBreak']_vars
    /\ [][(onBreak /\ onBreak' /\ ~(\E iv \in intervals : BreakTick(iv)))
          => breakTimeLeft' = breakTimeLeft]_vars

\* the colours of the map, written in lower case
C25_ColorsLower == { ToLowerCase(subjectColorsMap[k]) : k \in DOMAIN subjectColorsMap }

\* the pieces of the texts of the subject input, as typed and in lower case
C25_Cut ==
    UNION { { SubSeq(t, a, b) : a \in 1..Len(t), b \in 1..Len(t) } :
              t \in NewSubjectInputs \cup { ToLowerCase(u) : u \in NewSubjectInputs } }

\* the names that are trimmed and in lower case
C25_Normalized ==
    { Text(t) : t \in { u \in C25_Cut :
                          /\ u # <<>>
                          /\ ~IsSpace(u[1]) /\ ~IsSpace(u[Len(u)])
                          /\ \A i \in 1..Len(u) : ~IsUpper(u[i]) } }

\* C25: the subject list has no duplicates, every name that was added is
\* trimmed and in lower case, no two subjects have the same colour whatever
\* the case it is written in, and the colour map has one entry per subject
C25_SubjectsWellFormed ==
    /\ \A i, j \in 1..Len(subjects) : subjects[i] = subjects[j] => i = j
    /\ \A i \in 1..Len(subjects) :
          \/ Includes(SubjectPool, subjects[i])
          \/ subjects[i] \in C25_Normalized
    /\ Cardinality(C25_ColorsLower) = Cardinality(DOMAIN subjectColorsMap)
    /\ DOMAIN subjectColorsMap = { subjects[i] : i \in 1..Len(subjects) }

\* a subject typed with capitals and blanks was added, a subject was
\* deleted, and the handler has restored the list after the deletion failed
C25_Witness ==
    /\ lastOp = "prefReturned"
    /\ alertMsg = "Failed to delete subject"
    /\ Includes(subjects, "bio")
    /\ prefRequests = <<>>

\* C26: the seconds of every call of handleSaveStudyTime are the study ticks
\* of the segment it credits, no more and no fewer; the return of a ledger
\* write while a study runs leaves the counters of that study alone
C26_CommitMatchesTicks ==
    /\ [](lastSave.calls = 1 => lastSave.drift = 0)
    /\ [][(SaveReturns /\ timerRunning)
          => UNCHANGED <<countdownTimeLeft, stopwatchSeconds,
                         initialCountdownDuration>>]_vars

\* C27: the timer goes from Idle to Studying only by start() or by the
\* restart callback that follows the end of a break with no operation of the
\* user in between: a callback that fires right after an operation of the
\* user (a mode button, say) leaves the timer Idle
C27_StartOrUntouchedRestart ==
    [][(Phase = "Idle" /\ Phase' = "Studying")
       => \/ lastOp' = "start"
          \/ lastOp' = "restart" /\ ~C22_UserActed]_vars

\* C28: timerRunning and onBreak are never both true, so the timer is in
\* exactly one of Idle, Studying and OnBreak
C28_OnePhase == ~(timerRunning /\ onBreak)

\* C29: a call of handleSaveStudyTime names the subject selected when it is
\* made and sends nothing when none is selected; selecting another subject
\* during a study or a break, and the effects that follow it, change neither
\* the phase nor a counter, and a stop() after it credits the whole study
C29_Counters == <<timerRunning, onBreak, countdownTimeLeft, stopwatchSeconds,
                  breakTimeLeft, initialCountdownDuration, prePauseStudySeconds>>

C29_CreditsSelectedSubject ==
    /\ [](lastSave.calls = 1 => lastSave.subject = subject)
    /\ [](lastSave.calls = 1 /\ subject = "" => ~lastSave.sent)
    /\ [][(ChangeSubject /\ Phase \in {"Studying", "OnBreak"})
          => UNCHANGED C29_Counters]_vars
    /\ [][(RunEffects /\ lastOp = "selectSubject" /\ lastFrom \in {"Studying", "OnBreak"})
          => UNCHANGED C29_Counters]_vars
    /\ [][(ClickStop /\ Phase = "Studying")
          => /\ lastSave'.calls = 1
             /\ lastSave'.seconds = C5_ActualStudySeconds
             /\ lastSave'.subject = subject]_vars

\* a study started with a subject is stopped after 180 s or more and after
\* every subject was deleted: the call is made and nothing is sent
C29_Witness ==
    /\ lastOp = "stop"
    /\ lastFrom = "Studying"
    /\ lastSave.calls = 1
    /\ lastSave.seconds >= 180
    /\ lastSave.subject = ""
    /\ ~lastSave.sent

\* C30: when no preferences request is in flight, the subject list and the
\* colour map of the page are the ones the server stored last
C30_LocalMatchesStored ==
    prefRequests = <<>>
        => /\ subjects = prefStored.subjects
           /\ subjectColorsMap = prefStored.subjectcolors

====
